---- MODULE Spec2Model ----
(***************************************************************************)
(* mothrpy: the MothrClient session (client.py), the JobRequest lifecycle  *)
(* (request.py), the dotted field-path resolver (client.py) and the event  *)
(* Listener (listener.py).                                                 *)
(***************************************************************************)
EXTENDS Integers, Sequences, FiniteSets, TLC

VARIABLES
    env,        \* process environment: MOTHR_ACCESS_TOKEN / _USERNAME / _PASSWORD
    client,     \* the MothrClient object's attributes, or NoClient
    c_op,       \* last MothrClient operation called
    c_ret,      \* what it returned
    c_raised,   \* the exception it raised, or NoExc
    c_calls,    \* remote mutations it issued, in order
    c_resp,     \* the remote's answer to its last mutation
    c_issued,   \* tokens most recently handed out: by login (both) and refresh (access)
    c_args,     \* __init__'s token, username and password after the environment fallback
    c_before    \* the object's attributes as they were when the last operation was called

cvars == <<env, client, c_op, c_ret, c_raised, c_calls, c_resp, c_issued, c_args, c_before>>

VARIABLES
    req,        \* the JobRequest object: job_id, status, req_args' parameters / outputMetadata
    remote,     \* the jobs the remote service holds, in submission order
    pc,         \* where the JobRequest's current call stands ("idle": no call in progress)
    rj,         \* run_job's locals: job_id, status, return_failed
    sub,        \* the open subscription: its jobId and the events received so far
    j_op,       \* last JobRequest operation called
    j_ret,      \* what it returned
    j_raised,   \* the exception it raised, or NoError
    j_warned,   \* the warnings it emitted, in order
    j_calls,    \* the remote calls it issued and run_job's sleeps, in order
    j_resp,     \* the remote's answer to the last of them
    j_before,   \* job_id, parameters and outputMetadata as they were when it was called
    j_built     \* the add_parameter / add_input / add_output calls made so far

jvars == <<req, remote, pc, rj, sub, j_op, j_ret, j_raised, j_warned, j_calls,
           j_resp, j_before, j_built>>

VARIABLES
    r_obj,      \* resolve_field's root type (a DSLType)
    r_field,    \* its field argument: the path string, names and "." in order
    r_ret       \* the DSLField it returned or the exception it raised; NotCalled before

rvars == <<r_obj, r_field, r_ret>>

VARIABLES
    pubsub,      \* the Listener's pubsub: the channels and patterns it is subscribed to
    threading,   \* USE_THREADING: whether gevent could be imported
    l_pc,        \* where the Listener stands: not constructed, constructed, inside start()
    l_received,  \* the events pubsub.listen() has delivered, in order
    l_handled,   \* the handle_message invocations, <<channel, data>>, in order
    l_calls,     \* the subscribe / unsubscribe calls made on pubsub, in order
    l_stop       \* what ended run(): NotStopped while it has not ended

lvars == <<pubsub, threading, l_pc, l_received, l_handled, l_calls, l_stop>>

-----------------------------------------------------------------------------
(* Python values.  None and a missing attribute / dict key are distinct     *)
(* from every string the program handles.                                   *)

None == "<None>"
Unset == "<unset>"
Absent == "<absent>"
NoExc == "<no exception>"

\* str(v) as an f-string renders it
PyStr(v) == IF v = None THEN "None" ELSE v

\* bool(v) of an optional string
Truthy(v) == v # None /\ v # ""

\* f"Bearer {token}"
Bearer(token) == "Bearer " \o PyStr(token)

-----------------------------------------------------------------------------
(* The remote's answers to the login and refresh mutations.                 *)

AccessTokens == {"acc-1", "acc-2"}
RefreshTokens == {"ref-1", "ref-2"}
Usernames == {"test"}
Passwords == {"password"}

NoResp == [kind |-> "none"]
LoginResponses ==
    {[kind |-> "login", ok |-> FALSE]} \cup
    {[kind |-> "login", ok |-> TRUE, token |-> a, refresh |-> r] :
        a \in AccessTokens, r \in RefreshTokens}
RefreshResponses ==
    {[kind |-> "refresh", ok |-> FALSE]} \cup
    {[kind |-> "refresh", ok |-> TRUE, token |-> a] : a \in AccessTokens}

\* what a call returned
RetNone == [kind |-> "none"]
RetStr(s) == [kind |-> "str", value |-> s]
RetPair(a, b) == [kind |-> "tuple", first |-> a, second |-> b]

-----------------------------------------------------------------------------
(* MothrClient: the class of client.py, and the class of the same name in   *)
(* request.py that a JobRequest constructs when it is given no client.      *)

Modules == {"client.py", "request.py"}

NoClient == [constructed |-> FALSE]

\* kwargs.pop(key, os.getenv(VAR))
KwargOrEnv(arg, envval) == IF arg = Absent THEN envval ELSE arg

\* self.headers[key] = value on the dict self.headers is bound to; the
\* transport sees the write while it still holds that same dict
SetHeaderInPlace(c, value) ==
    [c EXCEPT !.headers = value,
              !.transport_headers = IF c.shared THEN value ELSE @]

\* self.headers = {...}: a new dict, the transport keeps the old one
RebindHeaders(c, value) ==
    [c EXCEPT !.headers = value, !.shared = FALSE]

\* login(): the username / password it ends up using
LoginCredential(arg, envval) == IF arg # None THEN arg ELSE envval

\* login(): the exception it raises before or after the mutation, or NoExc
LoginRaises(username, password, resp) ==
    IF LoginCredential(username, env.username) = None THEN "ValueError: Username not provided"
    ELSE IF LoginCredential(password, env.password) = None THEN "ValueError: Password not provided"
    ELSE IF ~resp.ok THEN "ValueError: Login failed"
    ELSE NoExc

\* login(): whether it gets as far as the remote mutation
LoginCallsRemote(username, password) ==
    /\ LoginCredential(username, env.username) # None
    /\ LoginCredential(password, env.password) # None

\* login(): the object after a successful call.  client.py stores the tokens
\* and writes the header; request.py only returns them
LoginEffect(c, resp) ==
    IF c.module = "client.py"
    THEN SetHeaderInPlace([c EXCEPT !.access = resp.token, !.refresh = resp.refresh],
                          Bearer(c.token))
    ELSE c

\* request.py __init__: self.token, self.refresh = self.login(...), then
\* self.headers = {"Authorization": ...}
LoginAtConstruction(c, resp) ==
    IF c.module = "client.py" THEN LoginEffect(c, resp)
    ELSE RebindHeaders([c EXCEPT !.token = resp.token, !.refresh = resp.refresh],
                       Bearer(resp.token))

\* a refresh_token that stores the new token as the refresh token too
RefreshEffect_Mutant(c, resp) ==
    SetHeaderInPlace([c EXCEPT !.token = resp.token, !.refresh = resp.token],
                     Bearer(resp.token))

\* refresh_token(): the object after a successful call
RefreshEffect(c, resp) ==
    SetHeaderInPlace([c EXCEPT !.token = resp.token], Bearer(resp.token))

\* __init__ up to the token / credentials policy
FreshClient(module, token) ==
    [constructed |-> TRUE, module |-> module, token |-> token, access |-> Unset,
     refresh |-> Unset, headers |-> Absent, transport_headers |-> Absent, shared |-> TRUE]

NoArgs == [token |-> None, username |-> None, password |-> None]

\* an __init__ that logs in whenever it has credentials
ConstructBranch_Mutant(token, username, password) ==
    IF Truthy(username) /\ Truthy(password) THEN "login"
    ELSE IF token # None THEN "token"
    ELSE "anonymous"

\* __init__: if self.token is not None / elif all((username, password)) / neither
ConstructBranch(token, username, password) ==
    IF token # None THEN "token"
    ELSE IF Truthy(username) /\ Truthy(password) THEN "login"
    ELSE "anonymous"

\* MothrClient(**kwargs)
Construct(module, tokenArg, userArg, passArg, resp) ==
    /\ client = NoClient
    /\ LET token == KwargOrEnv(tokenArg, env.token)
           username == KwargOrEnv(userArg, env.username)
           password == KwargOrEnv(passArg, env.password)
           branch == ConstructBranch(token, username, password)
           c0 == FreshClient(module, token)
       IN  /\ c_op' = "__init__"
           /\ c_ret' = RetNone
           /\ c_args' = [token |-> token, username |-> username, password |-> password]
           /\ c_before' = NoClient
           /\ IF branch = "token"
              THEN /\ client' = RebindHeaders(c0, Bearer(token))
                   /\ c_raised' = NoExc
                   /\ c_calls' = <<>>
                   /\ c_resp' = NoResp
                   /\ c_issued' = c_issued
              ELSE IF branch = "login"
              THEN /\ c_calls' = <<"login">>
                   /\ c_resp' = resp
                   /\ c_raised' = LoginRaises(username, password, resp)
                   /\ IF resp.ok
                      THEN /\ client' = LoginAtConstruction(c0, resp)
                           /\ c_issued' = [access |-> resp.token, refresh |-> resp.refresh]
                      ELSE /\ client' = NoClient
                           /\ c_issued' = c_issued
              ELSE /\ client' = c0
                   /\ c_raised' = NoExc
                   /\ c_calls' = <<>>
                   /\ c_resp' = NoResp
                   /\ c_issued' = c_issued
    /\ UNCHANGED <<env, jvars, rvars, lvars>>

\* client.login(username, password)
login(username, password, resp) ==
    /\ client # NoClient
    /\ c_op' = "login"
    /\ c_before' = client
    /\ UNCHANGED c_args
    /\ c_raised' = LoginRaises(username, password, resp)
    /\ IF LoginCallsRemote(username, password)
       THEN c_calls' = <<"login">> /\ c_resp' = resp
       ELSE c_calls' = <<>> /\ c_resp' = NoResp
    /\ IF LoginRaises(username, password, resp) = NoExc
       THEN /\ client' = LoginEffect(client, resp)
            /\ c_ret' = RetPair(resp.token, resp.refresh)
            /\ c_issued' = [access |-> resp.token, refresh |-> resp.refresh]
       ELSE /\ client' = client
            /\ c_ret' = RetNone
            /\ c_issued' = c_issued
    /\ UNCHANGED <<env, jvars, rvars, lvars>>

\* client.refresh_token()
refresh_token(resp) ==
    /\ client # NoClient
    /\ c_op' = "refresh_token"
    /\ c_before' = client
    /\ UNCHANGED c_args
    /\ IF client.refresh = Unset
       THEN /\ c_raised' = "AttributeError: refresh"
            /\ c_calls' = <<>>
            /\ c_resp' = NoResp
            /\ c_ret' = RetNone
            /\ UNCHANGED <<client, c_issued>>
       ELSE /\ c_calls' = <<"refresh">>
            /\ c_resp' = resp
            /\ IF resp.ok
               THEN /\ c_raised' = NoExc
                    /\ client' = RefreshEffect(client, resp)
                    /\ c_ret' = RetStr(resp.token)
                    /\ c_issued' = [c_issued EXCEPT !.access = resp.token]
               ELSE /\ c_raised' = "ValueError: Token refresh failed"
                    /\ c_ret' = RetNone
                    /\ UNCHANGED <<client, c_issued>>
    /\ UNCHANGED <<env, jvars, rvars, lvars>>

EnvSettings ==
    [token : {None} \cup AccessTokens,
     username : {None} \cup Usernames,
     password : {None} \cup Passwords]

\* no MOTHR_* variable set
NoEnv == [token |-> None, username |-> None, password |-> None]

InitClient ==
    /\ client = NoClient
    /\ c_op = "none"
    /\ c_ret = RetNone
    /\ c_raised = NoExc
    /\ c_calls = <<>>
    /\ c_resp = NoResp
    /\ c_issued = [access |-> None, refresh |-> None]
    /\ c_args = NoArgs
    /\ c_before = NoClient

ConstructStep ==
    \E module \in Modules,
       tokenArg \in {Absent, None} \cup AccessTokens,
       userArg \in {Absent, None, ""} \cup Usernames,
       passArg \in {Absent, None, ""} \cup Passwords,
       resp \in LoginResponses :
        Construct(module, tokenArg, userArg, passArg, resp)

LoginStep ==
    \E username \in {None} \cup Usernames, password \in {None} \cup Passwords,
       resp \in LoginResponses :
        login(username, password, resp)

RefreshStep == \E resp \in RefreshResponses : refresh_token(resp)

NextClient == ConstructStep \/ LoginStep \/ RefreshStep

-----------------------------------------------------------------------------
(* Strings the program inspects character by character are sequences of     *)
(* one-character strings.                                                   *)

Lower == {"a","b","c","d","e","f","g","h","i","j","k","l","m",
          "n","o","p","q","r","s","t","u","v","w","x","y","z"}
Upper == {"A","B","C","D","E","F","G","H","I","J","K","L","M",
          "N","O","P","Q","R","S","T","U","V","W","X","Y","Z"}
Digit == {"0","1","2","3","4","5","6","7","8","9"}
Whitespace == {" ", "\t", "\n", "\r", "\f"}

\* [a-zA-Z0-9\-\.]
BucketChar == Lower \cup Upper \cup Digit \cup {"-", "."}
\* [a-zA-Z]
Letter == Lower \cup Upper

\* \S*?$ on u[from..Len(u)]: non-whitespace up to the end, or up to a final newline
KeyMatches(u, from) ==
    \/ \A j \in from..Len(u) : u[j] \notin Whitespace
    \/ /\ Len(u) >= from
       /\ u[Len(u)] = "\n"
       /\ \A j \in from..(Len(u) - 1) : u[j] \notin Whitespace

\* re.match(r"^s3\:\/\/[a-zA-Z0-9\-\.]+[a-zA-Z]\/\S*?$", uri)
is_s3_uri(uri) ==
    /\ Len(uri) >= 8
    /\ SubSeq(uri, 1, 5) = <<"s", "3", ":", "/", "/">>
    /\ \E i \in 7..(Len(uri) - 1) :
        /\ \A j \in 6..(i - 1) : uri[j] \in BucketChar
        /\ uri[i] \in Letter
        /\ uri[i + 1] = "/"
        /\ KeyMatches(uri, i + 2)

-----------------------------------------------------------------------------
(* JobRequest (request.py): the builder                                     *)

NoError == [type |-> "none"]
ValueError(msg) == [type |-> "ValueError", msg |-> msg]
AttributeError(msg) == [type |-> "AttributeError", msg |-> msg]
KeyError(key) == [type |-> "KeyError", key |-> key]
IndexError == [type |-> "IndexError"]
RuntimeError(job_id, error) == [type |-> "RuntimeError", job_id |-> job_id, error |-> error]

RetSelf == [kind |-> "self"]
RetDict(d) == [kind |-> "dict", dict |-> d]

WarnSubmitted == "job has already been submitted"
WarnNotS3 == "is not an S3 URI"

\* outputMetadata is a dict (insertion-ordered, keys unique) until submit
\* replaces it by a list of {"key", "value"} dicts
MetaDict(items) == [form |-> "dict", items |-> items]
MetaList(items) == [form |-> "list", items |-> items]

\* JobRequest(service="test"): __init__ with the default arguments
NewRequest ==
    [job_id |-> None, status |-> None,
     parameters |-> <<>>, outputMetadata |-> MetaDict(<<>>)]

Snapshot(r) ==
    [job_id |-> r.job_id, status |-> r.status, parameters |-> r.parameters,
     outputMetadata |-> r.outputMetadata]

\* the dict add_parameter builds
Parameter(param_type, value, name) ==
    IF name # None
    THEN [type |-> param_type, value |-> value, name |-> name]
    ELSE [type |-> param_type, value |-> value]

\* an add_parameter that checks the URI shape whatever the type
ParameterWarnings_Mutant(r, value, param_type) ==
    (IF r.job_id # None THEN <<WarnSubmitted>> ELSE <<>>) \o
    (IF ~is_s3_uri(value) THEN <<WarnNotS3>> ELSE <<>>)

\* the warnings add_parameter emits
ParameterWarnings(r, value, param_type) ==
    (IF r.job_id # None THEN <<WarnSubmitted>> ELSE <<>>) \o
    (IF param_type \in {"input", "output"} /\ ~is_s3_uri(value)
     THEN <<WarnNotS3>> ELSE <<>>)

\* an add_parameter that inserts at the front
AddParameterEffect_Mutant(r, value, param_type, name) ==
    [r EXCEPT !.parameters = <<Parameter(param_type, value, name)>> \o @]

\* add_parameter: the request after the call
AddParameterEffect(r, value, param_type, name) ==
    [r EXCEPT !.parameters = Append(@, Parameter(param_type, value, name))]

\* dict.update with one key
RECURSIVE DictSet(_, _)
DictSet(items, kv) ==
    IF items = <<>> THEN <<kv>>
    ELSE IF Head(items).key = kv.key THEN <<kv>> \o Tail(items)
    ELSE <<Head(items)>> \o DictSet(Tail(items), kv)

\* dict.update(other)
RECURSIVE DictUpdate(_, _)
DictUpdate(items, other) ==
    IF other = <<>> THEN items
    ELSE DictUpdate(DictSet(items, Head(other)), Tail(other))

\* add_output_metadata: the warnings it emits
MetadataWarnings(r) == IF r.job_id # None THEN <<WarnSubmitted>> ELSE <<>>

\* add_output_metadata: .update exists on a dict only
MetadataRaises(r) ==
    IF r.outputMetadata.form = "dict" THEN NoError
    ELSE AttributeError("'list' object has no attribute 'update'")

\* add_output_metadata: the request after the call
AddOutputMetadataEffect(r, metadata) ==
    IF r.outputMetadata.form = "dict"
    THEN [r EXCEPT !.outputMetadata = MetaDict(DictUpdate(@.items, metadata))]
    ELSE r

\* what a finished call (one that leaves remote, rj and sub alone) leaves behind
Finish(op, r, ret, raised, warned, calls, resp, built) ==
    /\ j_op' = op
    /\ j_resp' = resp
    /\ req' = r
    /\ j_ret' = ret
    /\ j_raised' = raised
    /\ j_warned' = warned
    /\ j_calls' = calls
    /\ j_before' = Snapshot(req)
    /\ j_built' = built
    /\ pc' = "idle"
    /\ UNCHANGED <<cvars, rvars, lvars>>

\* request.add_parameter(value, param_type, name) and the two wrappers
AddParameterCall(op, value, param_type, name) ==
    /\ pc = "idle"
    /\ Finish(op, AddParameterEffect(req, value, param_type, name), RetSelf, NoError,
              ParameterWarnings(req, value, param_type), <<>>, NoResp,
              Append(j_built, [type |-> param_type, value |-> value]))
    /\ UNCHANGED <<remote, rj, sub>>

add_parameter(value, param_type, name) ==
    AddParameterCall("add_parameter", value, param_type, name)

add_input(value, name) == AddParameterCall("add_input", value, "input", name)

add_output(value, name) == AddParameterCall("add_output", value, "output", name)

\* request.add_output_metadata(metadata)
add_output_metadata(metadata) ==
    /\ pc = "idle"
    /\ Finish("add_output_metadata", AddOutputMetadataEffect(req, metadata),
              IF MetadataRaises(req) = NoError THEN RetSelf ELSE RetNone,
              MetadataRaises(req), MetadataWarnings(req), <<>>, NoResp, j_built)
    /\ UNCHANGED <<remote, rj, sub>>

-----------------------------------------------------------------------------
(* The remote job service, as the calls of request.py see it                *)

MaxJobs == 2          \* jobs the remote accepts
MaxLoggedPolls == 2   \* status queries of one run_job kept in j_calls
MaxEvents == 2        \* events a subscription delivers before it ends

RECURSIVE Ticks(_)
Ticks(n) == IF n = 0 THEN "" ELSE Ticks(n - 1) \o "i"

\* the id the remote gives its n-th job
JobIdOf(n) == "job-" \o Ticks(n)

Polling == {"submitted", "running"}
Terminal == {"complete", "failed"}

NewJob(id) ==
    [jobId |-> id, service |-> "test", status |-> "submitted", result |-> "", error |-> ""]

\* the remote's record of job id (job ids are only ever learnt from the remote)
RemoteJob(id) == remote[CHOOSE i \in 1..Len(remote) : remote[i].jobId = id]

\* submitJob answers: {"submitJob": {"job": {...}}} or {"errors": ...}
SubmitAnswer(errors, jobId, status) ==
    [kind |-> "submit", errors |-> errors, jobId |-> jobId, status |-> status]

\* the error the remote reports for a token it no longer accepts
TokenExpired == "token expired"

SubmitAnswers ==
    {SubmitAnswer("rejected", Absent, Absent),
     SubmitAnswer(TokenExpired, Absent, Absent),
     SubmitAnswer(Absent, Absent, Absent),
     SubmitAnswer(Absent, JobIdOf(Len(remote) + 1), Absent)} \cup
    (IF Len(remote) < MaxJobs
     THEN {SubmitAnswer(Absent, JobIdOf(Len(remote) + 1), "submitted")}
     ELSE {})

\* the remote creates the job it reports
RemoteAfterSubmit(called, resp) ==
    IF called /\ resp.errors = Absent /\ resp.jobId # Absent /\ resp.status # Absent
    THEN Append(remote, NewJob(resp.jobId))
    ELSE remote

\* a job moves submitted <-> running -> complete | failed on the remote's side
JobMoves(job) ==
    IF job.status \in Terminal THEN {}
    ELSE {[job EXCEPT !.status = "complete", !.result = "done"],
          [job EXCEPT !.status = "failed", !.error = "boom"]} \cup
         (IF job.status = "submitted" THEN {[job EXCEPT !.status = "running"]}
          ELSE {[job EXCEPT !.status = "submitted"]})

\* a remote held to no lifecycle: a job may show any other status next time
JobRevisions(job) ==
    {[job EXCEPT !.status = st] : st \in (Polling \cup Terminal) \ {job.status}}

RemoteRevise ==
    /\ \E i \in 1..Len(remote) : \E job \in JobRevisions(remote[i]) :
        remote' = [remote EXCEPT ![i] = job]
    /\ UNCHANGED <<req, pc, rj, sub, j_op, j_ret, j_raised, j_warned, j_calls,
                   j_resp, j_before, j_built, cvars, rvars, lvars>>

RemoteAdvance ==
    /\ \E i \in 1..Len(remote) : \E job \in JobMoves(remote[i]) :
        remote' = [remote EXCEPT ![i] = job]
    /\ UNCHANGED <<req, pc, rj, sub, j_op, j_ret, j_raised, j_warned, j_calls,
                   j_resp, j_before, j_built, cvars, rvars, lvars>>

-----------------------------------------------------------------------------
(* JobRequest (request.py): submit and the job queries                      *)

\* for k, v in <key>: a key unpacks into two names only if it has two characters
UnpackError(key) ==
    IF Len(key) > 2 THEN ValueError("too many values to unpack (expected 2)")
    ELSE IF Len(key) < 2 THEN ValueError("not enough values to unpack (expected 2)")
    ELSE NoError

RECURSIVE ConvertItems(_, _)
ConvertItems(form, items) ==
    IF items = <<>> THEN [raised |-> NoError, items |-> <<>>]
    ELSE LET rest == ConvertItems(form, Tail(items))
             \* iterating a dict yields its keys; iterating the list of
             \* {"key", "value"} dicts yields dicts, which unpack into their keys
             err == IF form = "dict" THEN UnpackError(Head(items).key) ELSE NoError
             kv == IF form = "dict"
                   THEN [key |-> <<Head(items).key[1]>>, value |-> Head(items).key[2]]
                   ELSE [key |-> <<"k", "e", "y">>, value |-> "value"]
         IN  IF err # NoError THEN [raised |-> err, items |-> <<>>]
             ELSE IF rest.raised # NoError THEN rest
             ELSE [raised |-> NoError, items |-> <<kv>> \o rest.items]

\* [{"key": k, "value": v} for k, v in self.req_args["outputMetadata"]]
ConvertMetadata(metadata) == ConvertItems(metadata.form, metadata.items)

\* a submit that reads the status with a default instead of indexing
SubmitRaises_Mutant(resp) ==
    IF resp.errors # Absent
    THEN ValueError("Error submitting job request: " \o resp.errors)
    ELSE IF resp.jobId = Absent THEN KeyError("jobId")
    ELSE NoError

\* submit(): the exception the remote's answer makes it raise
SubmitRaises(resp) ==
    IF resp.errors # Absent
    THEN ValueError("Error submitting job request: " \o resp.errors)
    ELSE IF resp.jobId = Absent THEN KeyError("jobId")
    ELSE IF resp.status = Absent THEN KeyError("status")
    ELSE NoError

\* a submit that forgets self.status
RecordJob_Mutant(r, resp) == [r EXCEPT !.job_id = resp.jobId]

\* self.job_id = job_id; self.status = status
RecordJob(r, resp) == [r EXCEPT !.job_id = resp.jobId, !.status = resp.status]

\* submit(): request, exception, return value and whether the remote was called
SubmitOutcome(r, resp) ==
    LET conv == ConvertMetadata(r.outputMetadata)
        r1 == [r EXCEPT !.outputMetadata = MetaList(conv.items)]
    IN  IF conv.raised # NoError
        THEN [req |-> r, raised |-> conv.raised, ret |-> RetNone, called |-> FALSE]
        ELSE IF SubmitRaises(resp) # NoError
        THEN [req |-> r1, raised |-> SubmitRaises(resp), ret |-> RetNone, called |-> TRUE]
        ELSE [req |-> RecordJob(r1, resp), raised |-> NoError,
              ret |-> RetStr(resp.jobId), called |-> TRUE]

\* request.submit()
submit(resp) ==
    /\ pc = "idle"
    /\ LET o == SubmitOutcome(req, resp)
       IN  /\ Finish("submit", o.req, o.ret, o.raised, <<>>,
                     IF o.called THEN <<"submit">> ELSE <<>>,
                     IF o.called THEN resp ELSE NoResp, j_built)
           /\ remote' = RemoteAfterSubmit(o.called, resp)
    /\ UNCHANGED <<rj, sub>>

\* query_job(): raises before querying when there is no job id
QueryRaises(r) ==
    IF r.job_id = None
    THEN ValueError("Job ID is None, have you submitted the job?")
    ELSE NoError

\* a query_job that queries before it looks at the job id
QueryCalls_Mutant(r, name) == <<name>>

\* query_job(): the calls it issues
QueryCalls(r, name) == IF QueryRaises(r) = NoError THEN <<name>> ELSE <<>>

\* resp["job"] for the fields asked
JobAnswer(id, fields) ==
    [kind |-> "job", job |-> [f \in fields |-> RemoteJob(id)[f]]]

StatusFields == {"status"}
ResultFields == {"jobId", "service", "status", "result", "error"}

\* request.check_status()
check_status ==
    /\ pc = "idle"
    /\ IF QueryRaises(req) = NoError
       THEN LET resp == JobAnswer(req.job_id, StatusFields)
            IN  Finish("check_status", req, RetStr(resp.job.status), NoError, <<>>,
                       QueryCalls(req, "status"), resp, j_built)
       ELSE Finish("check_status", req, RetNone, QueryRaises(req), <<>>,
                   QueryCalls(req, "status"), NoResp, j_built)
    /\ UNCHANGED <<remote, rj, sub>>

\* request.result()
result ==
    /\ pc = "idle"
    /\ IF QueryRaises(req) = NoError
       THEN LET resp == JobAnswer(req.job_id, ResultFields)
            IN  Finish("result", req, RetDict(resp.job), NoError, <<>>,
                       QueryCalls(req, "result"), resp, j_built)
       ELSE Finish("result", req, RetNone, QueryRaises(req), <<>>,
                   QueryCalls(req, "result"), NoResp, j_built)
    /\ UNCHANGED <<remote, rj, sub>>

-----------------------------------------------------------------------------
(* JobRequest.run_job: submit, poll, fetch the result                       *)

NoRun == [job_id |-> None, status |-> None, return_failed |-> FALSE]

\* j_calls keeps the first MaxLoggedPolls status queries of a run_job, and
\* the sleeps that follow them
LoggedPolls(log) == Cardinality({i \in DOMAIN log : log[i] = "status"})

LogCall(log, call) ==
    IF call = "status" /\ LoggedPolls(log) >= MaxLoggedPolls THEN log
    ELSE IF call = "sleep" /\ log[Len(log)] = "sleep" THEN log
    ELSE Append(log, call)

\* a loop that polls until the job is complete
KeepsPolling_UntilComplete(status) == status # "complete"

\* while status in ["submitted", "running"]
KeepsPolling(status) == status \in Polling

\* a run_job that compares the status with a misspelt "completed"
RunJobRaises_Typo(job_id, status, return_failed, res) ==
    IF status # "completed" /\ return_failed = FALSE
    THEN RuntimeError(job_id, res.error)
    ELSE NoError

\* a run_job that ignores return_failed
RunJobRaises_Always(job_id, status, return_failed, res) ==
    IF status # "complete"
    THEN RuntimeError(job_id, res.error)
    ELSE NoError

\* the end of run_job: raise RuntimeError or return the result
RunJobRaises(job_id, status, return_failed, res) ==
    IF status # "complete" /\ return_failed = FALSE
    THEN RuntimeError(job_id, res.error)
    ELSE NoError

\* job_id = self.submit()
run_job(return_failed, resp) ==
    /\ pc = "idle"
    /\ LET o == SubmitOutcome(req, resp)
       IN  /\ j_op' = "run_job"
           /\ req' = o.req
           /\ remote' = RemoteAfterSubmit(o.called, resp)
           /\ j_ret' = RetNone
           /\ j_raised' = o.raised
           /\ j_warned' = <<>>
           /\ j_calls' = IF o.called THEN <<"submit">> ELSE <<>>
           /\ j_resp' = IF o.called THEN resp ELSE NoResp
           /\ j_before' = Snapshot(req)
           /\ IF o.raised = NoError
              THEN /\ pc' = "check"
                   /\ rj' = [job_id |-> o.ret.value, status |-> None,
                             return_failed |-> return_failed]
              ELSE /\ pc' = "idle"
                   /\ rj' = NoRun
    /\ UNCHANGED <<sub, j_built, cvars, rvars, lvars>>

\* status = self.check_status(), before the loop and in its body
RunJobQuery(next) ==
    LET resp == JobAnswer(req.job_id, StatusFields)
    IN  /\ rj' = [rj EXCEPT !.status = resp.job.status]
        /\ j_calls' = LogCall(j_calls, "status")
        /\ j_resp' = resp
        /\ pc' = next
        /\ UNCHANGED <<req, remote, sub, j_op, j_ret, j_raised, j_warned,
                       j_before, j_built, cvars, rvars, lvars>>

RunJobFirstCheck == pc = "check" /\ RunJobQuery("while")

RunJobPoll == pc = "while" /\ KeepsPolling(rj.status) /\ RunJobQuery("sleep")

\* time.sleep(poll_frequency)
RunJobSleep ==
    /\ pc = "sleep"
    /\ pc' = "while"
    /\ j_calls' = LogCall(j_calls, "sleep")
    /\ UNCHANGED <<req, remote, rj, sub, j_op, j_ret, j_raised, j_warned,
                   j_resp, j_before, j_built, cvars, rvars, lvars>>

\* result = self.result(), then raise or return
RunJobFinish ==
    /\ pc = "while"
    /\ ~KeepsPolling(rj.status)
    /\ LET resp == JobAnswer(req.job_id, ResultFields)
           raised == RunJobRaises(rj.job_id, rj.status, rj.return_failed, resp.job)
       IN  /\ j_calls' = LogCall(j_calls, "result")
           /\ j_resp' = resp
           /\ j_raised' = raised
           /\ j_ret' = IF raised = NoError THEN RetDict(resp.job) ELSE RetNone
    /\ pc' = "idle"
    /\ UNCHANGED <<req, remote, rj, sub, j_op, j_warned, j_before, j_built, cvars, rvars, lvars>>

-----------------------------------------------------------------------------
(* JobRequest.subscribe: the completion subscription                        *)

NoSub == [jobId |-> "", events |-> <<>>]

\* the event the remote pushes for a finished job
CompleteEvent(job) == [subscribeJobComplete |-> job]

\* subscribe(): what it returns once the stream has ended
SubscribeReturns(events) == RetDict(events[1])

\* self.client.ws_client.subscribe(s), with jobId: "{self.job_id}"
subscribe ==
    /\ pc = "idle"
    /\ pc' = "subscribe"
    /\ sub' = [jobId |-> PyStr(req.job_id), events |-> <<>>]
    /\ j_op' = "subscribe"
    /\ j_ret' = RetNone
    /\ j_raised' = NoError
    /\ j_warned' = <<>>
    /\ j_calls' = <<"subscribe">>
    /\ j_resp' = NoResp
    /\ j_before' = Snapshot(req)
    /\ UNCHANGED <<req, remote, rj, j_built, cvars, rvars, lvars>>

\* the remote pushes the completion event of the subscribed job
SubscribePush ==
    /\ pc = "subscribe"
    /\ Len(sub.events) < MaxEvents
    /\ \E i \in 1..Len(remote) :
        /\ remote[i].jobId = sub.jobId
        /\ remote[i].status \in Terminal
        /\ sub' = [sub EXCEPT !.events = Append(@, CompleteEvent(remote[i]))]
    /\ UNCHANGED <<req, remote, pc, rj, j_op, j_ret, j_raised, j_warned, j_calls,
                   j_resp, j_before, j_built, cvars, rvars, lvars>>

\* the stream ends: list(...) completes and result[0] is returned
SubscribeEnd ==
    /\ pc = "subscribe"
    /\ IF sub.events = <<>>
       THEN j_raised' = IndexError /\ j_ret' = RetNone
       ELSE j_raised' = NoError /\ j_ret' = SubscribeReturns(sub.events)
    /\ pc' = "idle"
    /\ UNCHANGED <<req, remote, rj, sub, j_op, j_warned, j_calls, j_resp,
                   j_before, j_built, cvars, rvars, lvars>>

-----------------------------------------------------------------------------
(* JobRequest.subscribe_messages: the generator over the job's messages     *)

Messages == {"message 1", "message 2"}

\* the event the remote pushes for a message the job published
MessageEvent(m) == [subscribeJobMessages |-> m]

\* what the consumer of the generator has been handed so far
Yielded(items) == [kind |-> "yielded", items |-> items]

\* yield result
MessageYield(event) == RetDict(event)

\* the consumer's first next(): self.client.ws_client.subscribe(s), with
\* jobId: "{self.job_id}"
subscribe_messages ==
    /\ pc = "idle"
    /\ pc' = "messages"
    /\ sub' = [jobId |-> PyStr(req.job_id), events |-> <<>>]
    /\ j_op' = "subscribe_messages"
    /\ j_ret' = Yielded(<<>>)
    /\ j_raised' = NoError
    /\ j_warned' = <<>>
    /\ j_calls' = <<"subscribe_messages">>
    /\ j_resp' = NoResp
    /\ j_before' = Snapshot(req)
    /\ UNCHANGED <<req, remote, rj, j_built, cvars, rvars, lvars>>

\* the remote pushes a message event
MessagesPush ==
    /\ pc = "messages"
    /\ Len(sub.events) < MaxEvents
    /\ \E m \in Messages : sub' = [sub EXCEPT !.events = Append(@, MessageEvent(m))]
    /\ UNCHANGED <<req, remote, pc, rj, j_op, j_ret, j_raised, j_warned, j_calls,
                   j_resp, j_before, j_built, cvars, rvars, lvars>>

\* for result in ...: yield result, for the oldest event not yet handed on
MessagesYield ==
    /\ pc = "messages"
    /\ Len(j_ret.items) < Len(sub.events)
    /\ j_ret' = Yielded(Append(j_ret.items, MessageYield(sub.events[Len(j_ret.items) + 1])))
    /\ UNCHANGED <<req, remote, pc, rj, sub, j_op, j_raised, j_warned, j_calls,
                   j_resp, j_before, j_built, cvars, rvars, lvars>>

\* the stream ends after its last event: the generator returns
MessagesEnd ==
    /\ pc = "messages"
    /\ Len(j_ret.items) = Len(sub.events)
    /\ pc' = "idle"
    /\ UNCHANGED <<req, remote, rj, sub, j_op, j_ret, j_raised, j_warned, j_calls,
                   j_resp, j_before, j_built, cvars, rvars, lvars>>

-----------------------------------------------------------------------------
(* The JobRequest's callers                                                 *)

MaxParams == 2        \* add_parameter / add_input / add_output calls per request

\* "s3://ab/k", "s3://b/k", "foo"
UriGood == <<"s", "3", ":", "/", "/", "a", "b", "/", "k">>
UriShortBucket == <<"s", "3", ":", "/", "/", "b", "/", "k">>
NotUri == <<"f", "o", "o">>

ParamTypes == {"parameter", "input", "output"}

\* <<value, name>> as the callers pass them
ValueArgs == {<<UriGood, None>>, <<UriShortBucket, None>>, <<NotUri, None>>, <<NotUri, "-i">>}

\* {"ab": "bar"}, {"foo": "bar"}, {"ab": "baz"}
MetadataArgs ==
    {<<[key |-> <<"a", "b">>, value |-> "bar"]>>,
     <<[key |-> <<"f", "o", "o">>, value |-> "bar"]>>,
     <<[key |-> <<"a", "b">>, value |-> "baz"]>>}

InitJob ==
    /\ req = NewRequest
    /\ remote = <<>>
    /\ pc = "idle"
    /\ rj = NoRun
    /\ sub = NoSub
    /\ j_op = "__init__"
    /\ j_ret = RetNone
    /\ j_raised = NoError
    /\ j_warned = <<>>
    /\ j_calls = <<>>
    /\ j_resp = NoResp
    /\ j_before = Snapshot(NewRequest)
    /\ j_built = <<>>

AddParameterStep ==
    /\ Len(j_built) < MaxParams
    /\ \E arg \in ValueArgs, param_type \in ParamTypes :
        add_parameter(arg[1], param_type, arg[2])

AddInputStep ==
    /\ Len(j_built) < MaxParams
    /\ \E arg \in ValueArgs : add_input(arg[1], arg[2])

AddOutputStep ==
    /\ Len(j_built) < MaxParams
    /\ \E arg \in ValueArgs : add_output(arg[1], arg[2])

AddOutputMetadataStep == \E metadata \in MetadataArgs : add_output_metadata(metadata)

SubmitStep == \E resp \in SubmitAnswers : submit(resp)

RunJobStep == \E return_failed \in BOOLEAN, resp \in SubmitAnswers : run_job(return_failed, resp)

\* building and submitting a request
NextBuild ==
    \/ AddParameterStep
    \/ AddInputStep
    \/ AddOutputStep
    \/ AddOutputMetadataStep
    \/ SubmitStep
    \/ check_status
    \/ result

\* submitting a request and following its job; the parameters, which no
\* step below reads, stay as constructed
\* one run_job at a time, and the remote working on its jobs
NextRun ==
    \/ RunJobStep
    \/ RunJobFirstCheck
    \/ RunJobPoll
    \/ RunJobSleep
    \/ RunJobFinish
    \/ RemoteAdvance

\* one run_job at a time against a remote that answers anything
NextAnyRemote ==
    \/ RunJobStep
    \/ RunJobFirstCheck
    \/ RunJobPoll
    \/ RunJobSleep
    \/ RunJobFinish
    \/ RemoteRevise

NextJob ==
    \/ AddOutputMetadataStep
    \/ SubmitStep
    \/ check_status
    \/ result
    \/ RunJobStep
    \/ RunJobFirstCheck
    \/ RunJobPoll
    \/ RunJobSleep
    \/ RunJobFinish
    \/ subscribe
    \/ SubscribePush
    \/ SubscribeEnd
    \/ RemoteAdvance

\* submitting a request and consuming its messages
NextMessages ==
    \/ SubmitStep
    \/ subscribe_messages
    \/ MessagesPush
    \/ MessagesYield
    \/ MessagesEnd

-----------------------------------------------------------------------------
(* A JobRequest and the session it calls through: self.client, the          *)
(* MothrClient it was given or the one its __init__ constructed.            *)

SessionSubmit == client # NoClient /\ SubmitStep

SessionCheckStatus == client # NoClient /\ check_status

SessionResult == client # NoClient /\ result

NextSession ==
    \/ ConstructStep
    \/ RefreshStep
    \/ SessionSubmit
    \/ SessionCheckStatus
    \/ SessionResult

-----------------------------------------------------------------------------
(* MothrClient.resolve_field / select_field (client.py) over the DSL types  *)
(* of the schema.  A DSLField is its owning type, its name and the fields   *)
(* selected under it.                                                       *)

MaxPathTokens == 5    \* names and dots in a field path

\* the fields of the schema's types, <<type, field, type of the field>>:
\* those of the Service query, as the service() test asks for them
ServiceSchema ==
    {<<"Service", "name", "String">>, <<"Service", "version", "String">>,
     <<"Service", "parameters", "ServiceParameter">>,
     <<"ServiceParameter", "name", "String">>,
     <<"ServiceParameter", "fileType", "FileType">>,
     <<"FileType", "name", "String">>}

\* those of Job, as JobRequest queries and submits them
JobSchema ==
    {<<"Job", "jobId", "String">>, <<"Job", "service", "String">>,
     <<"Job", "status", "String">>, <<"Job", "result", "String">>,
     <<"Job", "error", "String">>,
     <<"Job", "outputMetadata", "Metadata">>, <<"Job", "parameters", "Parameter">>,
     <<"Job", "user", "User">>, <<"Job", "worker", "Worker">>,
     <<"Metadata", "key", "String">>, <<"Metadata", "value", "String">>,
     <<"Parameter", "type", "String">>, <<"Parameter", "value", "String">>,
     <<"Parameter", "name", "String">>}

SchemaFields == ServiceSchema \cup JobSchema

HasField(type, name) == \E f \in SchemaFields : f[1] = type /\ f[2] = name

TypeOfField(type, name) ==
    (CHOOSE f \in SchemaFields : f[1] = type /\ f[2] = name)[3]

\* self.field_map
field_map ==
    [Job |-> [outputMetadata |-> "Metadata", parameters |-> "Parameter",
              user |-> "User", worker |-> "Worker"],
     Service |-> [parameters |-> "ServiceParameter", fileType |-> "FileType"]]

NotCalled == [called |-> FALSE]
Raised(exc, what) == [error |-> exc, what |-> what]
IsError(x) == "error" \in DOMAIN x

DSLField(type, name) == [type |-> type, name |-> name, selection |-> <<>>]

\* getattr(<DSLType>, name)
GetAttr(type, name) ==
    IF HasField(type, name) THEN DSLField(type, name) ELSE Raised("KeyError", name)

\* field_obj.select(sub)
Select(field_obj, child) == [field_obj EXCEPT !.selection = Append(@, child)]

\* field.split(".")
RECURSIVE SplitDots(_, _)
SplitDots(tokens, current) ==
    IF tokens = <<>> THEN <<current>>
    ELSE IF Head(tokens) = "." THEN <<current>> \o SplitDots(Tail(tokens), "")
    ELSE SplitDots(Tail(tokens), current \o Head(tokens))

Split(field) == SplitDots(field, "")

\* "." in field
HasDot(field) == \E i \in 1..Len(field) : field[i] = "."

\* str(field_obj) without "{", "}" and newlines, split on " ", last piece:
\* the name of a field that selects nothing; the name of the only level
\* under it when that level closes the text; "" after a deeper closing brace
FieldKey(field_obj) ==
    IF field_obj.selection = <<>> THEN field_obj.name
    ELSE LET last == field_obj.selection[Len(field_obj.selection)]
         IN  IF last.selection = <<>> THEN last.name ELSE ""

\* a select_field that returns the nested selection without its parent
RECURSIVE select_field_Mutant(_, _, _)
select_field_Mutant(fmap, field_obj, field) ==
    LET field_key == FieldKey(field_obj)
        field_name == Head(field)
        rest == Tail(field)
    IN  IF field_key \notin DOMAIN fmap THEN Raised("KeyError", field_key)
        ELSE LET child == GetAttr(fmap[field_key], field_name)
             IN  IF IsError(child) THEN child
                 ELSE IF Len(rest) > 0
                 THEN select_field_Mutant(fmap, child, rest)
                 ELSE Select(field_obj, child)

\* a select_field that stops at a field it has no mapping for
RECURSIVE select_field_Lenient(_, _, _)
select_field_Lenient(fmap, field_obj, field) ==
    LET field_key == FieldKey(field_obj)
        field_name == Head(field)
        rest == Tail(field)
    IN  IF field_key \notin DOMAIN fmap THEN field_obj
        ELSE LET child == GetAttr(fmap[field_key], field_name)
             IN  IF IsError(child) THEN child
                 ELSE IF Len(rest) > 0
                 THEN LET nested == select_field_Lenient(fmap, child, rest)
                      IN  IF IsError(nested) THEN nested ELSE Select(field_obj, nested)
                 ELSE Select(field_obj, child)

\* select_field(field_map, field_obj, field)
RECURSIVE select_field(_, _, _)
select_field(fmap, field_obj, field) ==
    LET field_key == FieldKey(field_obj)
        field_name == Head(field)
        rest == Tail(field)
    IN  IF field_key \notin DOMAIN fmap THEN Raised("KeyError", field_key)
        ELSE LET child == GetAttr(fmap[field_key], field_name)
             IN  IF IsError(child) THEN child
                 ELSE IF Len(rest) > 0
                 THEN LET nested == select_field(fmap, child, rest)
                      IN  IF IsError(nested) THEN nested ELSE Select(field_obj, nested)
                 ELSE Select(field_obj, child)

\* resolve_field(obj, field)
resolve_field(obj, field) ==
    IF HasDot(field)
    THEN IF obj \notin DOMAIN field_map THEN Raised("KeyError", obj)
         ELSE LET f_split == Split(field)
                  first == GetAttr(obj, Head(f_split))
              IN  IF IsError(first) THEN first
                  ELSE select_field(field_map[obj], first, Tail(f_split))
    ELSE GetAttr(obj, Split(field)[1])

RootTypes == {"Service", "Job", "ServiceParameter"}
PathNames == {"name", "parameters", "fileType", "outputMetadata", "key"}

RECURSIVE TokenSeqs(_)
TokenSeqs(n) ==
    IF n = 0 THEN {<<>>}
    ELSE LET shorter == TokenSeqs(n - 1)
         IN  shorter \cup {Append(t, x) : t \in shorter, x \in PathNames \cup {"."}}

FieldPaths == TokenSeqs(MaxPathTokens)

ResolveField ==
    /\ r_ret = NotCalled
    /\ r_ret' = resolve_field(r_obj, r_field)
    /\ UNCHANGED <<r_obj, r_field, cvars, jvars, lvars>>

NextResolve == ResolveField

-----------------------------------------------------------------------------
(* Listener (listener.py): subscribe at construction, dispatch the events   *)
(* of pubsub.listen() to handle_message, unsubscribe when start() leaves.   *)

MaxStream == 3        \* events pubsub.listen() delivers to one Listener

\* "test", "test:*"
ChannelTest == <<"t", "e", "s", "t">>
PatternTest == <<"t", "e", "s", "t", ":", "*">>

\* the channels argument: one name, or a list of names
ChannelArgs ==
    {[kind |-> "str", value |-> ChannelTest],
     [kind |-> "list", value |-> <<>>],
     [kind |-> "list", value |-> <<PatternTest>>],
     [kind |-> "list", value |-> <<ChannelTest, PatternTest>>]}

\* the events of the test's stream
ListenEvents ==
    {[type |-> "message", pattern |-> None, channel |-> "test", data |-> "test message"],
     [type |-> "pmessage", pattern |-> "test:*", channel |-> "test:testing",
      data |-> "test message"],
     [type |-> "message", pattern |-> None, channel |-> "test", data |-> "test message2"],
     [type |-> "subscribe", pattern |-> None, channel |-> "test",
      data |-> "subscribe message"]}

NoSubscriptions == [channels |-> {}, patterns |-> {}]
NotStopped == "<running>"

\* if isinstance(channels, str): channels = [channels]
AsList(channels) == IF channels.kind = "str" THEN <<channels.value>> ELSE channels.value

\* channel.endswith('*')
EndsWithStar(channel) == Len(channel) > 0 /\ channel[Len(channel)] = "*"

IsExact(channel) == ~EndsWithStar(channel)

Elements(seq) == {seq[i] : i \in 1..Len(seq)}

\* Listener(channels)
ListenerInit(channels) ==
    /\ l_pc = "new"
    /\ LET subs == SelectSeq(AsList(channels), IsExact)
           pattern_subs == SelectSeq(AsList(channels), EndsWithStar)
       IN  /\ pubsub' = [channels |-> Elements(subs), patterns |-> Elements(pattern_subs)]
           /\ l_calls' = (IF Len(subs) > 0 THEN <<"subscribe">> ELSE <<>>) \o
                         (IF Len(pattern_subs) > 0 THEN <<"psubscribe">> ELSE <<>>)
    /\ l_pc' = "constructed"
    /\ UNCHANGED <<threading, l_received, l_handled, l_stop, cvars, jvars, rvars>>

\* listener.start(), up to self.run()
start ==
    /\ l_pc = "constructed"
    /\ l_pc' = "listen"
    /\ UNCHANGED <<pubsub, threading, l_received, l_handled, l_calls, l_stop,
                   cvars, jvars, rvars>>

\* an _iter_data that passes on direct messages only
IterDataYields_Mutant(message) == message.type = "message"

\* _iter_data: if message['type'] in ['message', 'pmessage']: yield message
IterDataYields(message) == message.type \in {"message", "pmessage"}

\* a start() that cleans up only after run() has returned
AfterRun_Mutant(stop) == IF stop = "exhausted" THEN "finally" ELSE "done"

\* start(): try / except KeyboardInterrupt / except Exception / finally: where
\* control goes when run() ends for the reason stop
AfterRun(stop) == "finally"

\* _iter_data: the next event of self.pubsub.listen()
IterData(message) ==
    /\ l_pc = "listen"
    /\ Len(l_received) < MaxStream
    /\ l_received' = Append(l_received, message)
    /\ l_pc' = IF IterDataYields(message) THEN "handle" ELSE "listen"
    /\ UNCHANGED <<pubsub, threading, l_handled, l_calls, l_stop, cvars, jvars, rvars>>

\* run(): the loop body.  With gevent the handler runs in a greenlet that
\* gevent.sleep(0) lets start, and what it raises stays in that greenlet;
\* without gevent it is called in place and what it raises leaves run()
RunHandle(outcome) ==
    /\ l_pc = "handle"
    /\ LET message == l_received[Len(l_received)]
       IN  l_handled' = Append(l_handled, <<message.channel, message.data>>)
    /\ IF ~threading /\ outcome = "raises"
       THEN l_stop' = "handler raised" /\ l_pc' = AfterRun("handler raised")
       ELSE l_stop' = l_stop /\ l_pc' = "listen"
    /\ UNCHANGED <<pubsub, threading, l_received, l_calls, cvars, jvars, rvars>>

\* what ends run() while it waits for the next event
ListenStops == {"exhausted", "KeyboardInterrupt", "stream raised"}

RunStops(stop) ==
    /\ l_pc = "listen"
    /\ l_stop' = stop
    /\ l_pc' = AfterRun(stop)
    /\ UNCHANGED <<pubsub, threading, l_received, l_handled, l_calls, cvars, jvars, rvars>>

\* finally: self.pubsub.unsubscribe()
Unsubscribe ==
    /\ l_pc = "finally"
    /\ pubsub' = [pubsub EXCEPT !.channels = {}]
    /\ l_calls' = Append(l_calls, "unsubscribe")
    /\ l_pc' = "punsubscribe"
    /\ UNCHANGED <<threading, l_received, l_handled, l_stop, cvars, jvars, rvars>>

\* finally: self.pubsub.punsubscribe(), then start() returns
PUnsubscribe ==
    /\ l_pc = "punsubscribe"
    /\ pubsub' = [pubsub EXCEPT !.patterns = {}]
    /\ l_calls' = Append(l_calls, "punsubscribe")
    /\ l_pc' = "done"
    /\ UNCHANGED <<threading, l_received, l_handled, l_stop, cvars, jvars, rvars>>

InitListener ==
    /\ pubsub = NoSubscriptions
    /\ l_pc = "new"
    /\ l_received = <<>>
    /\ l_handled = <<>>
    /\ l_calls = <<>>
    /\ l_stop = NotStopped

ListenerInitStep == \E channels \in ChannelArgs : ListenerInit(channels)

IterDataStep == \E message \in ListenEvents : IterData(message)

RunHandleStep == \E outcome \in {"returns", "raises"} : RunHandle(outcome)

RunStopsStep == \E stop \in ListenStops : RunStops(stop)

NextListener ==
    \/ ListenerInitStep
    \/ start
    \/ IterDataStep
    \/ RunHandleStep
    \/ RunStopsStep
    \/ Unsubscribe
    \/ PUnsubscribe

-----------------------------------------------------------------------------
(* Session claims                                                           *)

\* C1 (as claimed): after a successful login or refresh_token the stored
\* Authorization header is "Bearer " followed by the access token that call
\* returned.
C1_HeaderIsLatestToken ==
    (client # NoClient /\ c_op \in {"login", "refresh_token"} /\ c_raised = NoExc)
        => client.headers = "Bearer " \o c_issued.access

\* C2: a successful refresh_token after a login stores the returned token as
\* the access token and in the Authorization header, returns it, and keeps
\* the refresh token obtained at login.
C2_RefreshReplacesAccessOnly ==
    (client # NoClient /\ c_op = "refresh_token" /\ c_raised = NoExc)
        => /\ c_resp.ok
           /\ client.token = c_resp.token
           /\ client.headers = "Bearer " \o c_resp.token
           /\ c_ret = RetStr(c_resp.token)
           /\ client.refresh = c_before.refresh
           /\ client.refresh \in RefreshTokens

\* a refresh that succeeded after a login and changed the stored token
C2_Witness ==
    /\ client # NoClient
    /\ c_op = "refresh_token" /\ c_raised = NoExc
    /\ client.access \in AccessTokens
    /\ client.token \in AccessTokens /\ client.token # client.access
    /\ client.refresh \in RefreshTokens

\* C13: construction with a token (argument or environment) stores it,
\* sets the header to "Bearer " + token and makes no login call, whatever
\* username and password are available; without a token and with both a
\* username and a password it makes exactly one login call; otherwise it
\* makes no remote call and the client has no Authorization header.
C13_ConstructionPolicy ==
    c_op = "__init__" =>
        IF c_args.token # None
        THEN /\ client # NoClient
             /\ client.token = c_args.token
             /\ client.headers = "Bearer " \o c_args.token
             /\ c_calls = <<>>
             /\ c_raised = NoExc
        ELSE IF Truthy(c_args.username) /\ Truthy(c_args.password)
        THEN c_calls = <<"login">>
        ELSE /\ client # NoClient
             /\ client.headers = Absent
             /\ c_calls = <<>>
             /\ c_raised = NoExc

\* a token from the environment wins over a username and password given as arguments
C13_Witness ==
    /\ c_op = "__init__"
    /\ env.token \in AccessTokens
    /\ c_args = [token |-> env.token, username |-> "test", password |-> "password"]
    /\ client # NoClient
    /\ c_calls = <<>>

\* C20 (as claimed): a client constructed with an access token has the
\* header it stores, "Bearer " + token, in the header set its HTTP transport
\* was given at construction.
C20_TransportCarriesTokenHeader ==
    (client # NoClient /\ c_args.token # None)
        => /\ client.headers = "Bearer " \o c_args.token
           /\ client.transport_headers = client.headers

-----------------------------------------------------------------------------
(* JobRequest claims                                                        *)

BuilderOps == {"add_parameter", "add_input", "add_output", "add_output_metadata"}
ParameterOps == {"add_parameter", "add_input", "add_output"}

Warned(w) == \E i \in 1..Len(j_warned) : j_warned[i] = w

\* C3 (as claimed): a builder call made once the job id is set warns and
\* leaves parameters and outputMetadata as they were.
C3_BuilderAfterSubmitChangesNothing ==
    (j_op \in BuilderOps /\ j_before.job_id # None)
        => /\ Warned(WarnSubmitted)
           /\ req.parameters = j_before.parameters
           /\ req.outputMetadata = j_before.outputMetadata

\* C4: before submission the parameters are the add_parameter / add_input /
\* add_output calls made so far, one element per call, in call order, with
\* that call's type and value, however add_output_metadata calls are mixed
\* in; each such call returns the request itself (add_output_metadata does
\* so whenever outputMetadata is still the mapping it updates).
C4_ParametersFollowCalls ==
    /\ req.job_id = None
        => /\ Len(req.parameters) = Len(j_built)
           /\ \A i \in 1..Len(j_built) :
                /\ req.parameters[i].type = j_built[i].type
                /\ req.parameters[i].value = j_built[i].value
    /\ j_op \in ParameterOps => (j_raised = NoError /\ j_ret = RetSelf)
    /\ (j_op = "add_output_metadata" /\ j_before.outputMetadata.form = "dict")
        => (j_raised = NoError /\ j_ret = RetSelf)

\* two different parameters added around a metadata call, not yet submitted
C4_Witness ==
    /\ req.job_id = None
    /\ Len(j_built) >= 2
    /\ j_built[1] # j_built[2]
    /\ req.outputMetadata.form = "dict" /\ req.outputMetadata.items # <<>>
    /\ j_op \in ParameterOps

\* C5: check_status and result on a request without a job id raise and
\* issue no remote query.
C5_QueryWithoutJobIdRaises ==
    (j_op \in {"check_status", "result"} /\ j_before.job_id = None)
        => /\ j_raised.type = "ValueError"
           /\ j_ret = RetNone
           /\ j_calls = <<>>

\* result() called after a submit the remote rejected
C5_Witness ==
    /\ j_op = "result"
    /\ req.job_id = None
    /\ req.outputMetadata.form = "list"
    /\ j_raised # NoError

RunJobDone == j_op = "run_job" /\ pc = "idle"

\* C6: run_job(return_failed=False) whose polling ended on complete returns,
\* without raising, the record its result query fetched after that poll.
C6_RunJobReturnsCompleteRecord ==
    (RunJobDone /\ rj.status = "complete" /\ rj.return_failed = FALSE)
        => /\ j_raised = NoError
           /\ j_calls[Len(j_calls)] = "result"
           /\ j_resp.kind = "job"
           /\ j_ret = RetDict(j_resp.job)
           /\ j_resp.job.jobId = rj.job_id
           /\ j_resp.job.status = "complete"

\* submitted, running, complete: two polls that kept it waiting, then complete
C6_Witness ==
    /\ RunJobDone /\ rj.status = "complete" /\ rj.return_failed = FALSE
    /\ j_calls = <<"submit", "status", "status", "sleep", "result">>
    /\ j_ret.kind = "dict"

\* C7: when run_job's polling ends on failed, return_failed=False raises a
\* RuntimeError carrying the job id and the error the result query reported,
\* and return_failed=True returns that failed record without raising.
C7_RunJobFailed ==
    (RunJobDone /\ rj.status = "failed")
        => /\ j_resp.kind = "job"
           /\ j_resp.job.status = "failed"
           /\ rj.job_id = req.job_id
           /\ IF rj.return_failed
              THEN j_raised = NoError /\ j_ret = RetDict(j_resp.job)
              ELSE /\ j_raised = RuntimeError(req.job_id, j_resp.job.error)
                   /\ j_raised.error = RemoteJob(req.job_id).error
                   /\ j_ret = RetNone

\* a failed job returned to a caller that asked for failures
C7_Witness ==
    /\ RunJobDone /\ rj.status = "failed" /\ rj.return_failed
    /\ j_ret.kind = "dict"
    /\ j_ret.dict.error = "boom"

\* C14: the job id is None exactly when the status is None, in every state;
\* a submit that succeeds stores the job id and the status of the answer and
\* returns that job id.
C14_JobIdIffStatus ==
    /\ (req.job_id = None) <=> (req.status = None)
    /\ (j_op = "submit" /\ j_raised = NoError)
        => /\ j_resp.kind = "submit"
           /\ req.job_id = j_resp.jobId
           /\ req.status = j_resp.status
           /\ j_ret = RetStr(j_resp.jobId)

\* a first submit that the remote accepted
C14_Witness ==
    /\ j_op = "submit" /\ j_raised = NoError
    /\ j_before.job_id = None
    /\ req.job_id = "job-i" /\ req.status = "submitted"
    /\ j_ret = RetStr("job-i")

\* C15 (as claimed): a call made on a request whose job id is set leaves
\* that job id as it was.
C15_JobIdNeverChanges ==
    j_before.job_id # None => req.job_id = j_before.job_id

\* the answer carries an error payload or lacks the job id or the status
AnswerRejects(resp) ==
    /\ resp.kind = "submit"
    /\ (resp.errors # Absent \/ resp.jobId = Absent \/ resp.status = Absent)

\* C16: a submit (on its own or at the start of run_job) whose answer
\* carries an error payload or lacks the job id or the status raises, and
\* job id and status stay as they were before the call.
C16_RejectedSubmitRecordsNothing ==
    (j_op \in {"submit", "run_job"} /\ AnswerRejects(j_resp))
        => /\ j_raised # NoError
           /\ j_ret = RetNone
           /\ pc = "idle"
           /\ req.job_id = j_before.job_id
           /\ req.status = j_before.status

\* an answer with a job id but no status, on a request never submitted before
C16_Witness ==
    /\ j_op = "submit"
    /\ j_resp.kind = "submit"
    /\ j_resp.errors = Absent /\ j_resp.jobId # Absent /\ j_resp.status = Absent
    /\ j_raised = KeyError("status")
    /\ req.job_id = None /\ req.status = None

\* C21 (as claimed): a submit on a request whose outputMetadata is still
\* the mapping the builder calls made sends the request with one
\* {key, value} pair per entry of that mapping, in its order, whatever the
\* length of the keys.
C21_SubmitSendsMetadataPairs ==
    (j_op = "submit" /\ j_before.outputMetadata.form = "dict")
        => /\ j_calls = <<"submit">>
           /\ req.outputMetadata = MetaList(j_before.outputMetadata.items)

\* C22 (as claimed): the calls of a run_job are one submit, then status
\* queries, then one result query that ends the call and comes only after a
\* status outside submitted/running was observed; between two consecutive
\* status queries run_job sleeps.
C22_RunJobCallOrder ==
    j_op = "run_job"
        => /\ \A i \in DOMAIN j_calls : (j_calls[i] = "submit") <=> (i = 1)
           /\ \A i \in DOMAIN j_calls :
                  j_calls[i] = "result"
                      => /\ i = Len(j_calls)
                         /\ pc = "idle"
                         /\ ~KeepsPolling(rj.status)
           /\ \A i \in 1..(Len(j_calls) - 1) :
                  j_calls[i] = "status" => j_calls[i + 1] # "status"

\* run_job is past its submit and has not returned or raised yet
InRunJob == j_op = "run_job" /\ pc \in {"check", "while", "sleep"}

\* C23: a run_job whose job has reached complete or failed on the remote
\* returns or raises; and a run_job that got past its submit has returned or
\* raised only after a status outside submitted/running was polled, which is
\* the status its job has on the remote: as long as the remote reports
\* submitted or running, run_job is still polling.
C23_RunJobTerminatesOnFinalStatus ==
    /\ [](InRunJob \/ (RunJobDone /\ rj.job_id # None)
            => /\ rj.job_id = req.job_id
               /\ (RunJobDone => /\ rj.status \in Terminal
                                 /\ RemoteJob(rj.job_id).status = rj.status)
               /\ (RemoteJob(rj.job_id).status \in Polling => InRunJob))
    /\ ((InRunJob /\ RemoteJob(rj.job_id).status \in Terminal) ~> RunJobDone)

\* a run_job that returned after polling a job that kept it waiting
C23_Witness ==
    /\ RunJobDone /\ rj.status \in Terminal
    /\ LoggedPolls(j_calls) = MaxLoggedPolls
    /\ "sleep" \in {j_calls[i] : i \in DOMAIN j_calls}

\* C24 (as claimed): subscribe returns on the first event of the
\* subscription: it is never still waiting once an event was received, and
\* what it has consumed when it returns is that one event.
C24_SubscribeReturnsOnFirstEvent ==
    j_op = "subscribe"
        => /\ (pc = "subscribe" => sub.events = <<>>)
           /\ (pc = "idle" /\ j_raised = NoError => Len(sub.events) = 1)

\* C25 (as claimed): once run_job has returned a record or raised its
\* RuntimeError, the status attribute of the request is the last status the
\* polling observed.
C25_StatusFollowsPolling ==
    (RunJobDone /\ rj.status # None) => req.status = rj.status

\* C26 (as claimed): whatever the remote answers to the status and result
\* queries, a record that run_job with return_failed=False returns has
\* status complete.
C26_ReturnedRecordIsComplete ==
    (RunJobDone /\ rj.return_failed = FALSE /\ j_raised = NoError /\ j_ret.kind = "dict")
        => j_ret.dict.status = "complete"

\* C27 (as claimed): a submit that raises leaves parameters and
\* outputMetadata, content and form, as they were before the call.
C27_FailedSubmitKeepsSpecification ==
    (j_op = "submit" /\ j_raised # NoError)
        => /\ req.parameters = j_before.parameters
           /\ req.outputMetadata = j_before.outputMetadata

\* the call that produced the last parameter
LastBuilt == j_built[Len(j_built)]

\* C8: add_input / add_output (add_parameter with type input or output) with
\* a value that is no S3 URI appends the parameter, warns and raises
\* nothing; with type parameter the value is never checked.
C8_NonUriWarnsOnly ==
    j_op \in ParameterOps
        => /\ (LastBuilt.type \in {"input", "output"} /\ LastBuilt.value \in {NotUri, UriShortBucket})
                => /\ Warned(WarnNotS3)
                   /\ j_raised = NoError
                   /\ Len(req.parameters) = Len(j_before.parameters) + 1
                   /\ req.parameters[Len(req.parameters)].type = LastBuilt.type
                   /\ req.parameters[Len(req.parameters)].value = LastBuilt.value
           /\ (LastBuilt.type \in {"input", "output"} /\ LastBuilt.value = UriGood)
                => ~Warned(WarnNotS3)
           /\ LastBuilt.type = "parameter" => ~Warned(WarnNotS3)

\* add_input("foo") on an unsubmitted request
C8_Witness ==
    /\ j_op = "add_input"
    /\ req.job_id = None
    /\ LastBuilt.value = NotUri
    /\ j_warned = <<WarnNotS3>>
    /\ req.parameters[Len(req.parameters)].value = NotUri

\* C10 (as claimed): subscribe returns the completion event's payload record,
\* the one that has the jobId, service, status, result and error fields.
C10_SubscribeReturnsPayload ==
    (j_op = "subscribe" /\ pc = "idle" /\ j_raised = NoError)
        => j_ret = RetDict(sub.events[1].subscribeJobComplete)

\* C18 (as claimed): a JobRequest call that the remote answers with an
\* expired-token error, made through a session that holds a refresh token,
\* has triggered that session's refresh_token.
C18_ExpiredTokenTriggersRefresh ==
    (/\ j_op = "submit" /\ j_resp.kind = "submit" /\ j_resp.errors = TokenExpired
     /\ client # NoClient /\ client.refresh \in RefreshTokens)
        => c_op = "refresh_token"

\* C11 (as claimed): subscribe_messages hands its consumer one item per
\* pushed event, in arrival order, all of them once the stream has ended,
\* and each item is the message of its event.
C11_YieldsMessagesInOrder ==
    j_op = "subscribe_messages"
        => /\ Len(j_ret.items) <= Len(sub.events)
           /\ pc = "idle" => Len(j_ret.items) = Len(sub.events)
           /\ \A i \in 1..Len(j_ret.items) :
                j_ret.items[i] = RetStr(sub.events[i].subscribeJobMessages)

-----------------------------------------------------------------------------
(* Field resolution claims                                                  *)

\* the path's segments name a field of the root type, a field of that
\* field's type, and so on
RECURSIVE KnownChain(_, _)
KnownChain(type, segments) ==
    /\ segments # <<>>
    /\ HasField(type, Head(segments))
    /\ Len(segments) > 1 => KnownChain(TypeOfField(type, Head(segments)), Tail(segments))

\* ds.T0.s1.select(ds.T1.s2.select( ... ds.Tn.sn)) written out by hand
RECURSIVE ComposedByHand(_, _)
ComposedByHand(type, segments) ==
    IF Len(segments) = 1 THEN DSLField(type, Head(segments))
    ELSE Select(DSLField(type, Head(segments)),
                ComposedByHand(TypeOfField(type, Head(segments)), Tail(segments)))

\* the resolver's field_map knows the chain: the root type has an entry that
\* maps every segment but the last
MappedChain(type, segments) ==
    Len(segments) > 1 =>
        /\ type \in DOMAIN field_map
        /\ \A i \in 1..(Len(segments) - 1) : segments[i] \in DOMAIN field_map[type]

\* C9: on a dotted path s1.s2...sn whose segments follow a type chain of the
\* schema that field_map knows, resolve_field returns the selection composed
\* by hand, s1 selecting s2 ... selecting sn, each segment once and in path
\* order; a one-segment path returns that field of the root type.
C9_ResolveEqualsHandComposition ==
    (/\ r_ret # NotCalled
     /\ KnownChain(r_obj, Split(r_field))
     /\ MappedChain(r_obj, Split(r_field)))
        => r_ret = ComposedByHand(r_obj, Split(r_field))

\* "parameters.fileType.name" on Service
C9_Witness ==
    /\ r_obj = "Service"
    /\ r_field = <<"parameters", ".", "fileType", ".", "name">>
    /\ r_ret # NotCalled
    /\ ~IsError(r_ret)
    /\ r_ret.selection[1].selection[1].name = "name"

\* the names a returned selection holds, from the root field down
RECURSIVE PathOf(_)
PathOf(f) ==
    <<f.name>> \o (IF f.selection = <<>> THEN <<>> ELSE PathOf(f.selection[Len(f.selection)]))

\* every level of a returned selection selects one field only
RECURSIVE SingleChain(_)
SingleChain(f) ==
    f.selection = <<>> \/ (Len(f.selection) = 1 /\ SingleChain(f.selection[1]))

\* C17: resolve_field raises for a dotted path on a root type field_map has
\* no entry for, for a segment that is no field of the type it is looked up
\* in, and for a segment that follows a leaf; whatever it returns without
\* raising holds every segment of the path, once and in path order.
C17_NoSegmentDropped ==
    r_ret # NotCalled =>
        /\ (HasDot(r_field) /\ r_obj \notin DOMAIN field_map) => IsError(r_ret)
        /\ ~KnownChain(r_obj, Split(r_field)) => IsError(r_ret)
        /\ ~MappedChain(r_obj, Split(r_field)) => IsError(r_ret)
        /\ ~IsError(r_ret)
            => /\ r_ret.type = r_obj
               /\ SingleChain(r_ret)
               /\ PathOf(r_ret) = Split(r_field)

\* "name.name" on Service: a segment after a leaf
C17_Witness ==
    /\ r_obj = "Service"
    /\ r_field = <<"name", ".", "name">>
    /\ r_ret # NotCalled
    /\ IsError(r_ret)

-----------------------------------------------------------------------------
(* Listener claims                                                          *)

\* the handle_message calls a sequence of events asks for
RECURSIVE Dispatch(_)
Dispatch(events) ==
    IF events = <<>> THEN <<>>
    ELSE (IF Head(events).type \in {"message", "pmessage"}
          THEN << <<Head(events).channel, Head(events).data>> >>
          ELSE <<>>) \o Dispatch(Tail(events))

\* C12: when start has returned, handle_message has been invoked once for
\* each received event of type message or pmessage, in arrival order, with
\* that event's channel and data, and for no other event.
C12_HandlesEachMessageOnce ==
    l_pc = "done" => l_handled = Dispatch(l_received)

\* a pattern message and a direct message around a subscribe event
C12_Witness ==
    /\ l_pc = "done"
    /\ Len(l_received) = 3
    /\ l_received[1].type = "pmessage"
    /\ l_received[2].type = "subscribe"
    /\ l_received[3].type = "message"
    /\ Len(l_handled) = 2

\* C19: whatever ended run() (the stream ran out, a keyboard interrupt, an
\* exception of the stream or of handle_message), when start has returned
\* its last two pubsub calls were unsubscribe and punsubscribe, and no
\* channel or pattern is left subscribed.
C19_UnsubscribesOnEveryExit ==
    l_pc = "done"
        => /\ l_stop \in ListenStops \cup {"handler raised"}
           /\ Len(l_calls) >= 2
           /\ SubSeq(l_calls, Len(l_calls) - 1, Len(l_calls)) = <<"unsubscribe", "punsubscribe">>
           /\ pubsub = NoSubscriptions

\* handle_message raised on the second message of a Listener on both kinds of channel
C19_Witness ==
    /\ l_pc = "done"
    /\ l_stop = "handler raised"
    /\ Len(l_handled) = 2
    /\ l_calls = <<"subscribe", "psubscribe", "unsubscribe", "punsubscribe">>

vars == <<cvars, jvars, rvars, lvars>>

InitResolve == r_obj = "Service" /\ r_field = <<"name">> /\ r_ret = NotCalled

Init ==
    /\ env = NoEnv /\ InitClient /\ InitJob /\ InitResolve
    /\ InitListener /\ threading = FALSE

\* a Listener, with or without gevent
InitListen ==
    /\ env = NoEnv /\ InitClient /\ InitJob /\ InitResolve
    /\ InitListener /\ threading \in BOOLEAN

InitSession ==
    /\ env \in EnvSettings /\ InitClient /\ InitJob /\ InitResolve
    /\ InitListener /\ threading = FALSE

InitPaths ==
    /\ env = NoEnv /\ InitClient /\ InitJob
    /\ InitListener /\ threading = FALSE
    /\ r_obj \in RootTypes /\ r_field \in FieldPaths /\ r_ret = NotCalled

\* the MothrClient session
SpecClient == InitSession /\ [][NextClient]_vars

\* one JobRequest being built and submitted
SpecBuild == Init /\ [][NextBuild]_vars

\* one JobRequest, its job on the remote and the callers following it
Spec == Init /\ [][NextJob]_vars

\* one JobRequest in run_job: a synchronous call, each of whose statements
\* runs once control reaches it (the remote answers every query, sleep returns)
SpecRun ==
    /\ Init /\ [][NextRun]_vars
    /\ WF_vars(RunJobFirstCheck) /\ WF_vars(RunJobPoll)
    /\ WF_vars(RunJobSleep) /\ WF_vars(RunJobFinish)

\* one JobRequest in run_job, for every sequence of remote answers
SpecAnyRemote == Init /\ [][NextAnyRemote]_vars

\* one JobRequest and the consumer of its message subscription
SpecMessages == Init /\ [][NextMessages]_vars

\* one JobRequest calling the remote through its session
SpecSession == Init /\ [][NextSession]_vars

\* one Listener from construction to the return of start()
SpecListener == InitListen /\ [][NextListener]_vars

\* resolve_field applied to every root type and path within the bounds
SpecResolve == InitPaths /\ [][NextResolve]_vars

====
